---- MODULE Spec2Model ----
(***************************************************************************)
(* Model of the LINE <-> Dify relay (src/app/main.py): signature gate,     *)
(* webhook dispatcher, background workers, SSE aggregation, outbound sends *)
(* and the diagnostic buffers.                                             *)
(*                                                                         *)
(* Strings are sequences of characters (one TLA+ string per character; a   *)
(* non-ASCII character is written by its code point, "u670d"), so that     *)
(* strip(), len(), slicing and the character tests of the source are       *)
(* computed and not assumed.  None is the Python None / an absent key.     *)
(***************************************************************************)
EXTENDS Integers, Sequences, FiniteSets, TLC

----------------------------------------------------------------------------
(* Configuration (src/app/main.py:20-41)                                   *)

LINE_MAX_CHARS == 800
NO_TOKEN_FALLBACK_SECONDS == 35
OVERALL_DEADLINE_SECONDS == 120
\* read timeout of the streaming POST, timeout=(15, 180)
READ_TIMEOUT_SECONDS == 180

ACK_TEXT == <<"u6536","u5230","uff0c","u6211","u67e5","u4e00","u4e0b","uff08","u7d04"," ","1","0"," ","u79d2","uff09","u3002">>
BUSY_TEXT == <<"A","I"," ","u670d","u52d9","u5fd9","u788c","u4e2d","uff0c","u8acb","u7a0d","u5f8c","u518d","u8a66">>
\* the literal returned when DIFY_API_KEY is not set
NO_KEY_TEXT == <<"uff08","D","I","F","Y","_","A","P","I","_","K","E","Y"," ","u672a","u8a2d","u5b9a","uff09">>
\* the truncation marker of _truncate_for_line
TRUNC_SUFFIX == <<"\n","uff08","u5167","u5bb9","u904e","u9577","u5df2","u622a","u65b7","uff09">>

None == <<"None">>

s_workflow_started == <<"w","o","r","k","f","l","o","w","_","s","t","a","r","t","e","d">>
s_node_started == <<"n","o","d","e","_","s","t","a","r","t","e","d">>
s_node_finished == <<"n","o","d","e","_","f","i","n","i","s","h","e","d">>
s_agent_log == <<"a","g","e","n","t","_","l","o","g">>
s_tool_started == <<"t","o","o","l","_","s","t","a","r","t","e","d">>
s_tool_finished == <<"t","o","o","l","_","f","i","n","i","s","h","e","d">>
s_retriever_started == <<"r","e","t","r","i","e","v","e","r","_","s","t","a","r","t","e","d">>
s_retriever_finished == <<"r","e","t","r","i","e","v","e","r","_","f","i","n","i","s","h","e","d">>
s_message_end == <<"m","e","s","s","a","g","e","_","e","n","d">>
s_agent_end == <<"a","g","e","n","t","_","e","n","d">>
s_workflow_finished == <<"w","o","r","k","f","l","o","w","_","f","i","n","i","s","h","e","d">>
s_agent_message == <<"a","g","e","n","t","_","m","e","s","s","a","g","e">>
s_agent_thought == <<"a","g","e","n","t","_","t","h","o","u","g","h","t">>
s_message == <<"m","e","s","s","a","g","e">>
s_message_delta == <<"m","e","s","s","a","g","e","_","d","e","l","t","a">>
s_error == <<"e","r","r","o","r">>

IGNORE_EVENTS ==
    { s_workflow_started, s_node_started, s_node_finished, s_agent_log,
      s_tool_started, s_tool_finished, s_retriever_started, s_retriever_finished }

END_EVENTS == { s_message_end, s_agent_end, s_workflow_finished }

BAD_LITERALS ==
    { s_agent_message, s_agent_thought, s_agent_log, s_message, s_message_delta,
      s_workflow_started, s_workflow_finished, s_node_started, s_node_finished,
      s_tool_started, s_tool_finished, s_retriever_started, s_retriever_finished }

----------------------------------------------------------------------------
(* Python string primitives                                                *)

Whitespace == {" ", "\n", "\t", "\r"}

LowerChars ==
    {"a","b","c","d","e","f","g","h","i","j","k","l","m",
     "n","o","p","q","r","s","t","u","v","w","x","y","z"}

HexChars ==
    {"0","1","2","3","4","5","6","7","8","9",
     "a","b","c","d","e","f","A","B","C","D","E","F"}

\* x or ""
OrEmpty(x) == IF x = None THEN <<>> ELSE x

RECURSIVE LStrip(_)
LStrip(s) ==
    IF s # <<>> /\ Head(s) \in Whitespace THEN LStrip(Tail(s)) ELSE s

RECURSIVE RStrip(_)
RStrip(s) ==
    IF s # <<>> /\ s[Len(s)] \in Whitespace
    THEN RStrip(SubSeq(s, 1, Len(s) - 1))
    ELSE s

\* str.strip()
Strip(s) == RStrip(LStrip(s))

\* s[:n] for n >= 0
Prefix(s, n) == SubSeq(s, 1, IF n < Len(s) THEN n ELSE Len(s))

\* "".join(parts)
RECURSIVE Join(_)
Join(ps) == IF ps = <<>> THEN <<>> ELSE Head(ps) \o Join(Tail(ps))

\* UUID_RE.match(s) on a stripped s
UUID_RE(s) ==
    /\ Len(s) = 36
    /\ \A i \in 1..36 :
         IF i \in {9, 14, 19, 24} THEN s[i] = "-" ELSE s[i] \in HexChars

----------------------------------------------------------------------------
(* Text Sanitizer                                                          *)

\* a slip: the text is trimmed but never cut
_truncate_for_line_nocut(text0, max_chars) == Strip(OrEmpty(text0))

\* a slip: the cut is not trimmed before the marker is appended
_truncate_for_line_norstrip(text0, max_chars) ==
    LET text == Strip(OrEmpty(text0))
        keep == max_chars - Len(TRUNC_SUFFIX)
    IN  IF Len(text) <= max_chars THEN text
        ELSE IF keep <= 0 THEN Prefix(text, max_chars)
        ELSE Prefix(text, keep) \o TRUNC_SUFFIX

_truncate_for_line(text0, max_chars) ==
    LET text == Strip(OrEmpty(text0))
        keep == max_chars - Len(TRUNC_SUFFIX)
    IN  IF Len(text) <= max_chars THEN text
        ELSE IF keep <= 0 THEN Prefix(text, max_chars)
        ELSE RStrip(Prefix(text, keep)) \o TRUNC_SUFFIX

----------------------------------------------------------------------------
(* Noise filter and payload extraction                                     *)

\* a slip: an identifier-shaped payload passes the filter
_looks_bad_text_noUuid(s0) ==
    LET s == Strip(OrEmpty(s0))
    IN  \/ s = <<>>
        \/ s \in BAD_LITERALS
        \/ /\ Len(s) <= 30
           /\ \A i \in 1..Len(s) : s[i] \in LowerChars \/ s[i] = "_"
           /\ \E i \in 1..Len(s) : s[i] = "_"

_looks_bad_text(s0) ==
    LET s == Strip(OrEmpty(s0))
    IN  \/ s = <<>>
        \/ s \in BAD_LITERALS
        \/ UUID_RE(s)
        \/ /\ Len(s) <= 30
           /\ \A i \in 1..Len(s) : s[i] \in LowerChars \/ s[i] = "_"
           /\ \E i \in 1..Len(s) : s[i] = "_"

AnswerKeys == <<"answer", "delta", "text", "content">>

\* d is a record with the four answer keys (None when absent or not a string)
RECURSIVE PickFrom(_, _)
PickFrom(d, i) ==
    IF i > Len(AnswerKeys) THEN <<>>
    ELSE LET v == d[AnswerKeys[i]]
         IN  (IF v # None /\ Strip(v) # <<>> THEN <<Strip(v)>> ELSE <<>>)
             \o PickFrom(d, i + 1)

_pick_answer_fields(d) == PickFrom(d, 1)

RECURSIVE FirstGood(_)
FirstGood(cands) ==
    IF cands = <<>> THEN <<>>
    ELSE IF _looks_bad_text(Head(cands)) THEN FirstGood(Tail(cands))
    ELSE Head(cands)

\* obj.data is the nested "data" record; all four keys None when "data" is
\* absent or is not a dict (both contribute no candidate)
_extract_answer(obj) ==
    LET event == Strip(OrEmpty(obj.event))
    IN  IF event \in IGNORE_EVENTS THEN <<>>
        ELSE IF event = s_error THEN <<>>
        ELSE FirstGood(_pick_answer_fields(obj) \o _pick_answer_fields(obj.data))

_is_good_final_thought(obj) ==
    LET thought == Strip(OrEmpty(obj.thought))
        tool == Strip(OrEmpty(obj.tool))
    IN  /\ Strip(OrEmpty(obj.event)) = s_agent_thought
        /\ thought # <<>>
        /\ ~UUID_RE(thought)
        /\ tool = <<>>
        /\ Len(thought) >= 10

----------------------------------------------------------------------------
(* State                                                                   *)

VARIABLES
    cfg,        \* process-wide configuration read at start-up
    clock,      \* time.time()
    SSE_TAIL,   \* diagnostic ring buffer of decoded events
    SSE_RAW,    \* diagnostic ring buffer of raw records
    LAST_SEEN,  \* debug record of the last dispatched message
    th,         \* background units, one per dispatched message
    hook,       \* the webhook handler: position, pending events, response
    out,        \* what was handed to the messaging platform, per message
    ring,       \* callers inside _sse_tail_add / _sse_raw_add and the debug readers
    san,        \* one call of _truncate_for_line: its arguments and its result
    _CACHE,     \* the monitoring service's response cache, by key
    req         \* requests of the monitoring service, one per pool worker

vars == <<cfg, clock, SSE_TAIL, SSE_RAW, LAST_SEEN, th, hook, out, ring, san, _CACHE, req>>

SSE_TAIL_MAX == 80
SSE_RAW_MAX == 50

\* bounds of the model
MaxMsgs == 2
MaxLines == 4
MaxClock == 300

Threads == 1..MaxMsgs

\* callers that can be inside a ring-buffer append at the same time
MaxWriters == 2
Writers == 1..MaxWriters

\* a caller of _sse_tail_add / _sse_raw_add: where it is in the function,
\* which buffer it works on, the slice bound it computed, appends completed
NoWriter == [pc |-> "idle", buf |-> "none", n |-> 0, done |-> 0]

\* seenTail / seenRaw: the "count" a debug endpoint last returned;
\* logTail / logRaw: every entry appended since the last debug_reset, in
\* append order (never read by the program); nops: operations completed
NoRing ==
    [w |-> [i \in Writers |-> NoWriter], seenTail |-> 0, seenRaw |-> 0,
     logTail |-> <<>>, logRaw |-> <<>>, nops |-> 0]

\* no call of _truncate_for_line in progress
NoCall == [pc |-> "none", text |-> <<>>, max_chars |-> 0, result |-> <<>>]

\* monitoring service: how long a cached response stays valid, in seconds
TTL_SECONDS == 120

\* cache keys of the two tools: "health:<service>:<window>" and "cost:<timeframe>"
CacheKeys == {"health:svc:1h", "cost:7d"}

\* _CACHE.get(key) for a key that is not in the dictionary
NoEntry == [ts |-> -1, data |-> -1]

\* the empty dictionary
NoCache == [k \in CacheKeys |-> NoEntry]

MaxWorkers == 2
MaxCalls == 2
Workers == 1..MaxWorkers

\* a pool worker serving no request; last is how its latest get_cache call
\* ended ("None", "data" or "KeyError"), got the entry it returned from and
\* at the time of its expiry test
NoReq == [pc |-> "idle", key |-> "", entry |-> NoEntry, calls |-> 0,
          last |-> "", got |-> NoEntry, at |-> 0, expired |-> FALSE]

NoReqs == [w \in Workers |-> NoReq]

----------------------------------------------------------------------------
(* Diagnostic ring buffers                                                 *)

\* a slip: on overflow the slice keeps the oldest entries
_sse_tail_add_keepOldest(tail, t, kind) ==
    LET a == Append(tail, [t |-> t, kind |-> kind])
    IN  IF Len(a) > SSE_TAIL_MAX THEN SubSeq(a, 1, SSE_TAIL_MAX) ELSE a

\* SSE_TAIL.append(item); del SSE_TAIL[: len - SSE_TAIL_MAX]
_sse_tail_add(tail, t, kind) ==
    LET a == Append(tail, [t |-> t, kind |-> kind])
    IN  IF Len(a) > SSE_TAIL_MAX
        THEN SubSeq(a, Len(a) - SSE_TAIL_MAX + 1, Len(a)) ELSE a

_sse_raw_add(raw, obj) ==
    LET a == Append(raw, obj)
    IN  IF Len(a) > SSE_RAW_MAX
        THEN SubSeq(a, Len(a) - SSE_RAW_MAX + 1, Len(a)) ELSE a

----------------------------------------------------------------------------
(* SSE Event Decoder                                                       *)

NoData == [answer |-> None, delta |-> None, text |-> None, content |-> None]

\* a decoded JSON record: the keys the program reads
Obj(event, answer, thought, tool) ==
    [event |-> event, answer |-> answer, delta |-> None, text |-> None,
     content |-> None, thought |-> thought, tool |-> tool, data |-> NoData]

NoObj == Obj(None, None, None, None)

\* one line of the stream, as iter_lines yields it:
\*   tag "blank"  an empty or whitespace-only line
\*   tag "event"  "event: <name>"
\*   tag "data"   "data: <payload>", json = what json.loads makes of it:
\*                "dict" (obj), "nondict", "bad" (raises), "done" ([DONE]),
\*                "empty" (nothing after "data:")
\*   tag "other"  any other line (comment, id:, retry:)
BlankLine == [tag |-> "blank", name |-> <<>>, json |-> "na", obj |-> NoObj]
EventLine(n) == [tag |-> "event", name |-> n, json |-> "na", obj |-> NoObj]
DataLine(o) == [tag |-> "data", name |-> <<>>, json |-> "dict", obj |-> o]
DataOther(j) == [tag |-> "data", name |-> <<>>, json |-> j, obj |-> NoObj]
OtherLine == [tag |-> "other", name |-> <<>>, json |-> "na", obj |-> NoObj]

\* the for loop of _parse_sse_block: the last event: and the last data: line
RECURSIVE ScanBlock(_, _, _)
ScanBlock(lines, event_name, data) ==
    IF lines = <<>> THEN [event_name |-> event_name, data |-> data]
    ELSE LET l == Head(lines)
         IN  IF l.tag = "event"
             THEN ScanBlock(Tail(lines), Strip(l.name), data)
             ELSE IF l.tag = "data"
             THEN ScanBlock(Tail(lines), event_name, l)
             ELSE ScanBlock(Tail(lines), event_name, data)

\* returns the record (has = FALSE for None), the event name carried on, and
\* whether the bad_json diagnostic was recorded
_parse_sse_block(lines, last_event_line) ==
    LET sc == ScanBlock(lines, last_event_line, OtherLine)
        d == sc.data
    IN  IF d.tag # "data" \/ d.json \in {"empty", "done"}
        THEN [has |-> FALSE, obj |-> NoObj, event_name |-> sc.event_name, bad |-> FALSE]
        ELSE IF d.json = "dict"
        THEN [has |-> TRUE,
              obj |-> IF d.obj.event = None /\ sc.event_name # <<>>
                      THEN [d.obj EXCEPT !.event = sc.event_name] ELSE d.obj,
              event_name |-> sc.event_name, bad |-> FALSE]
        ELSE IF d.json = "nondict"
        THEN [has |-> FALSE, obj |-> NoObj, event_name |-> sc.event_name, bad |-> FALSE]
        ELSE [has |-> FALSE, obj |-> NoObj, event_name |-> sc.event_name, bad |-> TRUE]

----------------------------------------------------------------------------
(* Answer Aggregator: dify_call_agent_streaming, one step per loop         *)
(* iteration.  A background unit th[t] carries the locals of its call and, *)
(* in the fields nlines .. toks, a record of how the call went (never      *)
(* read by the program).                                                   *)

NoPoll == [hard |-> FALSE, idle |-> FALSE, err |-> FALSE, term |-> FALSE,
           tok |-> FALSE, skipped |-> FALSE]

NoThread ==
    [pc |-> "none", kind |-> "none", arg |-> <<>>,
     no_text_deadline |-> 0, overall_deadline |-> 0,
     parts |-> <<>>, got_any_answer |-> FALSE, last_good_thought |-> <<>>,
     last_event_line |-> <<>>, block |-> <<>>, result |-> <<>>,
     nlines |-> 0, ends |-> 0, endkind |-> "none", endAt |-> 0,
     sawError |-> FALSE, sawEnd |-> FALSE, sawOpen |-> FALSE, poll |-> NoPoll,
     toks |-> <<>>]

\* a slip: the fallback thought is dropped from the chain
FinalAnswer_noThought(parts, last_good_thought) ==
    LET joined == Strip(Join(parts))
        final == joined
    IN  IF final # <<>> THEN _truncate_for_line(final, LINE_MAX_CHARS)
        ELSE BUSY_TEXT

\* final = "".join(parts).strip(); if not final and last_good_thought: ...
\* return _truncate_for_line(final) if final else BUSY_TEXT
FinalAnswer(parts, last_good_thought) ==
    LET joined == Strip(Join(parts))
        final == IF joined = <<>> /\ last_good_thought # <<>>
                 THEN last_good_thought ELSE joined
    IN  IF final # <<>> THEN _truncate_for_line(final, LINE_MAX_CHARS)
        ELSE BUSY_TEXT

\* a return statement of dify_call_agent_streaming
Return(a, text, kind, now) ==
    [a EXCEPT !.pc = "returned", !.result = text, !.ends = @ + 1,
              !.endkind = kind, !.endAt = now]

\* a slip: the token flag is set for every record that is not ignorable
HandleObj_flagAlways(a, obj, now, tail, raw) ==
    LET event == obj.event
        thought == IF _is_good_final_thought(obj)
                   THEN Strip(OrEmpty(obj.thought)) ELSE a.last_good_thought
        ans == _extract_answer(obj)
        take == event \notin IGNORE_EVENTS /\ ans # <<>>
        parts == IF take THEN Append(a.parts, ans) ELSE a.parts
        got == a.got_any_answer \/ event \notin IGNORE_EVENTS
        a1 == [a EXCEPT !.last_good_thought = thought, !.parts = parts,
                        !.got_any_answer = got]
        tail1 == _sse_tail_add(tail, now, "event")
        raw1 == _sse_raw_add(raw, obj)
    IN  IF event = s_error
        THEN [a |-> Return(a, BUSY_TEXT, "dify_error_event", now),
              tail |-> _sse_tail_add(tail, now, "dify_error_event"),
              raw |-> raw1, go |-> FALSE]
        ELSE IF event \in END_EVENTS
        THEN [a |-> Return(a1, FinalAnswer(parts, thought), "end", now),
              tail |-> _sse_tail_add(tail1, now, "end"),
              raw |-> raw1, go |-> FALSE]
        ELSE [a |-> a1, tail |-> tail1, raw |-> raw1, go |-> TRUE]

\* a slip: a new fragment is put in front of the collected text
HandleObj_prepend(a, obj, now, tail, raw) ==
    LET event == obj.event
        thought == IF _is_good_final_thought(obj)
                   THEN Strip(OrEmpty(obj.thought)) ELSE a.last_good_thought
        ans == _extract_answer(obj)
        take == event \notin IGNORE_EVENTS /\ ans # <<>>
        parts == IF take THEN <<ans>> \o a.parts ELSE a.parts
        got == a.got_any_answer \/ take
        a1 == [a EXCEPT !.last_good_thought = thought, !.parts = parts,
                        !.got_any_answer = got]
        tail1 == _sse_tail_add(tail, now, "event")
        raw1 == _sse_raw_add(raw, obj)
    IN  IF event = s_error
        THEN [a |-> Return(a, BUSY_TEXT, "dify_error_event", now),
              tail |-> _sse_tail_add(tail, now, "dify_error_event"),
              raw |-> raw1, go |-> FALSE]
        ELSE IF event \in END_EVENTS
        THEN [a |-> Return(a1, FinalAnswer(parts, thought), "end", now),
              tail |-> _sse_tail_add(tail1, now, "end"),
              raw |-> raw1, go |-> FALSE]
        ELSE [a |-> a1, tail |-> tail1, raw |-> raw1, go |-> TRUE]

\* the body of "if block:" for a decoded record obj (lines 390-420)
HandleObj(a, obj, now, tail, raw) ==
    LET event == obj.event
        thought == IF _is_good_final_thought(obj)
                   THEN Strip(OrEmpty(obj.thought)) ELSE a.last_good_thought
        ans == _extract_answer(obj)
        take == event \notin IGNORE_EVENTS /\ ans # <<>>
        parts == IF take THEN Append(a.parts, ans) ELSE a.parts
        got == a.got_any_answer \/ take
        a1 == [a EXCEPT !.last_good_thought = thought, !.parts = parts,
                        !.got_any_answer = got]
        tail1 == _sse_tail_add(tail, now, "event")
        raw1 == _sse_raw_add(raw, obj)
    IN  IF event = s_error
        THEN [a |-> Return(a, BUSY_TEXT, "dify_error_event", now),
              tail |-> _sse_tail_add(tail, now, "dify_error_event"),
              raw |-> raw1, go |-> FALSE]
        ELSE IF event \in END_EVENTS
        THEN [a |-> Return(a1, FinalAnswer(parts, thought), "end", now),
              tail |-> _sse_tail_add(tail1, now, "end"),
              raw |-> raw1, go |-> FALSE]
        ELSE [a |-> a1, tail |-> tail1, raw |-> raw1, go |-> TRUE]

\* a slip: the idle timeout returns the fallback chain, not the busy text
IdleCheck_chain(r, now) ==
    IF ~r.a.got_any_answer /\ now > r.a.no_text_deadline
    THEN [r EXCEPT !.a = Return(r.a, IF r.a.last_good_thought # <<>>
                                     THEN r.a.last_good_thought ELSE BUSY_TEXT,
                                "no_text_timeout", now),
                   !.tail = _sse_tail_add(r.tail, now, "no_text_timeout"),
                   !.go = FALSE]
    ELSE r

\* the idle check after a block was handled (423-425) or mid-block (431-433)
IdleCheck(r, now) ==
    IF ~r.a.got_any_answer /\ now > r.a.no_text_deadline
    THEN [r EXCEPT !.a = Return(r.a, BUSY_TEXT, "no_text_timeout", now),
                   !.tail = _sse_tail_add(r.tail, now, "no_text_timeout"),
                   !.go = FALSE]
    ELSE r

\* one iteration of "for line in r.iter_lines(...)" (lines 369-433)
LoopBody(a, line, now, tail, raw) ==
    IF now > a.overall_deadline
    THEN [a |-> Return(a, FinalAnswer(a.parts, a.last_good_thought),
                       "overall_timeout", now),
          tail |-> _sse_tail_add(tail, now, "overall_timeout"),
          raw |-> raw, go |-> FALSE]
    ELSE IF line.tag = "blank"
    THEN IF a.block # <<>>
         THEN LET p == _parse_sse_block(a.block, a.last_event_line)
                  a0 == [a EXCEPT !.last_event_line = p.event_name, !.block = <<>>]
                  tail0 == IF p.bad THEN _sse_tail_add(tail, now, "bad_json") ELSE tail
              IN  IF ~p.has
                  THEN [a |-> a0, tail |-> tail0, raw |-> raw, go |-> TRUE]
                  ELSE LET r == HandleObj(a0, p.obj, now, tail0, raw)
                       IN  IF r.go THEN IdleCheck(r, now) ELSE r
         ELSE IdleCheck([a |-> a, tail |-> tail, raw |-> raw, go |-> TRUE], now)
    ELSE IdleCheck([a |-> [a EXCEPT !.block = Append(a.block, line)],
                    tail |-> tail, raw |-> raw, go |-> TRUE], now)

\* what the stream presented at a poll, whatever the code then did with it:
\* which of the termination conditions held when the line arrived
PollOf(a, line, now) ==
    LET closes == line.tag = "blank" /\ a.block # <<>>
        p == _parse_sse_block(a.block, a.last_event_line)
    IN  [hard |-> now > a.overall_deadline,
         idle |-> ~a.got_any_answer /\ now > a.no_text_deadline,
         err |-> closes /\ p.has /\ p.obj.event = s_error,
         term |-> closes /\ p.has /\ p.obj.event \in END_EVENTS,
         tok |-> closes /\ p.has /\ p.obj.event \notin IGNORE_EVENTS
                  /\ p.obj.event # s_error /\ _extract_answer(p.obj) # <<>>,
         skipped |-> closes /\ ~p.has]

\* the token payload a completed block presents: the first usable candidate
\* of a record that is neither an error nor an ignorable event (<<>> if none)
Accepted(block, last_event_line) ==
    LET p == _parse_sse_block(block, last_event_line)
    IN  IF block # <<>> /\ p.has /\ p.obj.event \notin IGNORE_EVENTS
           /\ p.obj.event # s_error
        THEN _extract_answer(p.obj) ELSE <<>>

----------------------------------------------------------------------------
(* Outbound sends.  out[m] is the ledger of message m: what the handler    *)
(* extracted from the event and every call and POST made on its behalf;    *)
(* texts holds each text put in a POST body, with the channel it went by,  *)
(* failed counts the POSTs that came back non-200 or raised.               *)

NoMsg ==
    [seen |-> FALSE, dispatched |-> FALSE, reply_token |-> <<>>, push_to |-> <<>>,
     replyCalls |-> 0, replyPosts |-> 0, pushCalls |-> 0, pushPosts |-> 0,
     bgCalls |-> 0, failed |-> 0, texts |-> {}]

\* a slip: the reply is handed to another thread and not made in the call
line_reply_deferred(o, access_token, reply_token, text, status) == o

\* a slip: a failed reply is sent again
line_reply_retry(o, access_token, reply_token, text, status) ==
    LET n == IF status = "200" THEN 1 ELSE 2
        o1 == [o EXCEPT !.replyCalls = @ + 1]
    IN  IF ~access_token \/ reply_token = <<>> THEN o1
        ELSE [o1 EXCEPT !.replyPosts = @ + n,
                        !.failed = @ + (IF status = "200" THEN 0 ELSE 1),
                        !.texts = @ \cup {[via |-> "reply",
                                           text |-> _truncate_for_line(text, LINE_MAX_CHARS)]}]

\* status: the outcome of requests.post: "200", "500" (any non-200) or
\* "exception"; the last two are logged, and all three return None
line_reply(o, access_token, reply_token, text, status) ==
    LET o1 == [o EXCEPT !.replyCalls = @ + 1]
    IN  IF ~access_token \/ reply_token = <<>> THEN o1
        ELSE [o1 EXCEPT !.replyPosts = @ + 1,
                        !.failed = @ + (IF status = "200" THEN 0 ELSE 1),
                        !.texts = @ \cup {[via |-> "reply",
                                           text |-> _truncate_for_line(text, LINE_MAX_CHARS)]}]

line_push(o, access_token, to_id, text, status) ==
    LET o1 == [o EXCEPT !.pushCalls = @ + 1]
    IN  IF ~access_token \/ to_id = <<>> THEN o1
        ELSE [o1 EXCEPT !.pushPosts = @ + 1,
                        !.failed = @ + (IF status = "200" THEN 0 ELSE 1),
                        !.texts = @ \cup {[via |-> "push",
                                           text |-> _truncate_for_line(text, LINE_MAX_CHARS)]}]

PostStatus == {"200", "500", "exception"}

\* ans or BUSY_TEXT
OrBusy(ans) == IF ans = <<>> THEN BUSY_TEXT ELSE ans

----------------------------------------------------------------------------
(* Background workers                                                      *)

\* threading.Thread(target=..., args=(user_text, dify_user_id, arg)).start()
StartThread(kind, arg) == [NoThread EXCEPT !.pc = "start", !.kind = kind, !.arg = arg]

\* dify_call_agent_streaming, lines 335-337: no credential
AggNoKey(t) ==
    /\ th[t].pc = "start"
    /\ ~cfg.dify_key
    /\ th' = [th EXCEPT ![t] = Return(@, NO_KEY_TEXT, "config_error", clock)]
    /\ SSE_TAIL' = _sse_tail_add(SSE_TAIL, clock, "config_error")
    /\ UNCHANGED <<cfg, ring, san, _CACHE, req, clock, SSE_RAW, LAST_SEEN, hook, out>>

\* lines 339-367: the deadlines are set, then the POST is made; its status
\* arrives d seconds later
AggOpen(t, status, d) ==
    /\ th[t].pc = "start"
    /\ cfg.dify_key
    /\ clock + d <= MaxClock
    /\ clock' = clock + d
    /\ LET a == [th[t] EXCEPT !.no_text_deadline = clock + NO_TOKEN_FALLBACK_SECONDS,
                              !.overall_deadline = clock + OVERALL_DEADLINE_SECONDS,
                              !.sawOpen = TRUE]
       IN  IF status = "200"
           THEN /\ th' = [th EXCEPT ![t] = [a EXCEPT !.pc = "stream"]]
                /\ UNCHANGED SSE_TAIL
           ELSE LET kind == IF status = "timeout" THEN "timeout_exception"
                            ELSE IF status = "exception" THEN "exception"
                            ELSE "http_error"
                IN  /\ th' = [th EXCEPT ![t] = Return(a, BUSY_TEXT, kind, clock')]
                    /\ SSE_TAIL' = _sse_tail_add(SSE_TAIL, clock', kind)
    /\ UNCHANGED <<cfg, ring, san, _CACHE, req, SSE_RAW, LAST_SEEN, hook, out>>

OpenStatus == {"200", "500", "timeout", "exception"}

\* a slip: the collected text is one list shared by all units
AggLine_sharedParts(t, line, d) ==
    /\ th[t].pc = "stream"
    /\ clock + d <= MaxClock
    /\ clock' = clock + d
    /\ LET other == CHOOSE u \in Threads : u # t
           a == [th[t] EXCEPT !.parts = IF th[other].parts # <<>>
                                        THEN th[other].parts ELSE @]
           r == LoopBody(a, line, clock', SSE_TAIL, SSE_RAW)
           p == PollOf(a, line, clock')
           tok == IF p.tok /\ ~p.hard THEN <<Accepted(a.block, a.last_event_line)>>
                  ELSE <<>>
       IN  /\ th' = [th EXCEPT ![t] =
                       [r.a EXCEPT !.nlines = @ + 1, !.poll = p,
                                   !.sawError = @ \/ (p.err /\ ~p.hard),
                                   !.sawEnd = @ \/ (p.term /\ ~p.hard),
                                   !.toks = @ \o tok]]
           /\ SSE_TAIL' = r.tail
           /\ SSE_RAW' = r.raw
    /\ UNCHANGED <<cfg, ring, san, _CACHE, req, LAST_SEEN, hook, out>>

\* iter_lines yields the next line, d seconds after the previous poll
AggLine(t, line, d) ==
    /\ th[t].pc = "stream"
    /\ clock + d <= MaxClock
    /\ clock' = clock + d
    /\ LET a == th[t]
           r == LoopBody(a, line, clock', SSE_TAIL, SSE_RAW)
           p == PollOf(a, line, clock')
           tok == IF p.tok /\ ~p.hard THEN <<Accepted(a.block, a.last_event_line)>>
                  ELSE <<>>
       IN  /\ th' = [th EXCEPT ![t] =
                       [r.a EXCEPT !.nlines = @ + 1, !.poll = p,
                                   !.sawError = @ \/ (p.err /\ ~p.hard),
                                   !.sawEnd = @ \/ (p.term /\ ~p.hard),
                                   !.toks = @ \o tok]]
           /\ SSE_TAIL' = r.tail
           /\ SSE_RAW' = r.raw
    /\ UNCHANGED <<cfg, ring, san, _CACHE, req, LAST_SEEN, hook, out>>

\* lines 435-451: what is left in block is decoded, then the fallback chain
EofBody(a, now, tail, raw) ==
    LET p == _parse_sse_block(a.block, a.last_event_line)
        has == a.block # <<>> /\ p.has
        tail0 == IF a.block # <<>> /\ p.bad
                 THEN _sse_tail_add(tail, now, "bad_json") ELSE tail
        thought == IF has /\ _is_good_final_thought(p.obj)
                   THEN Strip(OrEmpty(p.obj.thought)) ELSE a.last_good_thought
        ans == IF has THEN _extract_answer(p.obj) ELSE <<>>
        parts == IF ans # <<>> THEN Append(a.parts, ans) ELSE a.parts
        a1 == [a EXCEPT !.last_event_line = IF a.block # <<>> THEN p.event_name ELSE @,
                        !.last_good_thought = thought,
                        !.parts = parts,
                        !.got_any_answer = @ \/ ans # <<>>,
                        !.poll = NoPoll,
                        !.sawError = @ \/ (has /\ p.obj.event = s_error),
                        !.sawEnd = @ \/ (has /\ p.obj.event \in END_EVENTS),
                        !.toks = IF Accepted(a.block, a.last_event_line) # <<>>
                                 THEN Append(@, Accepted(a.block, a.last_event_line))
                                 ELSE @]
    IN  [a |-> Return(a1, FinalAnswer(parts, thought), "eof", now),
         tail |-> _sse_tail_add(tail0, now, "eof"),
         raw |-> IF has THEN _sse_raw_add(raw, p.obj) ELSE raw]

\* the stream ends
AggEOF(t) ==
    /\ th[t].pc = "stream"
    /\ LET r == EofBody(th[t], clock, SSE_TAIL, SSE_RAW)
       IN  /\ th' = [th EXCEPT ![t] = r.a]
           /\ SSE_TAIL' = r.tail
           /\ SSE_RAW' = r.raw
    /\ UNCHANGED <<cfg, ring, san, _CACHE, req, clock, LAST_SEEN, hook, out>>

\* the read raises after d seconds: requests.exceptions.Timeout (453-455) or
\* any other exception (456-459)
AggRaise(t, kind, d) ==
    /\ th[t].pc = "stream"
    /\ clock + d <= MaxClock
    /\ clock' = clock + d
    /\ th' = [th EXCEPT ![t] = Return([@ EXCEPT !.poll = NoPoll], BUSY_TEXT, kind, clock')]
    /\ SSE_TAIL' = _sse_tail_add(SSE_TAIL, clock', kind)
    /\ UNCHANGED <<cfg, ring, san, _CACHE, req, SSE_RAW, LAST_SEEN, hook, out>>

RaiseKinds == {"timeout_exception", "exception"}

\* a slip: the worker stays where it is after sending, and sends again
BgSend_resend(t, status) ==
    /\ th[t].pc = "returned"
    /\ out' = [out EXCEPT ![t] =
                 LET o == [@ EXCEPT !.bgCalls = @ + 1]
                 IN  IF th[t].kind = "ackpush"
                     THEN line_push(o, cfg.access_token, th[t].arg,
                                    OrBusy(th[t].result), status)
                     ELSE line_reply(o, cfg.access_token, th[t].arg,
                                     OrBusy(th[t].result), status)]
    /\ UNCHANGED <<cfg, ring, san, _CACHE, req, clock, SSE_TAIL, SSE_RAW, LAST_SEEN, hook, th>>

\* background_ackpush / background_replyonce after the aggregation returned
BgSend(t, status) ==
    /\ th[t].pc = "returned"
    /\ th' = [th EXCEPT ![t].pc = "done"]
    /\ out' = [out EXCEPT ![t] =
                 LET o == [@ EXCEPT !.bgCalls = @ + 1]
                 IN  IF th[t].kind = "ackpush"
                     THEN line_push(o, cfg.access_token, th[t].arg,
                                    OrBusy(th[t].result), status)
                     ELSE line_reply(o, cfg.access_token, th[t].arg,
                                     OrBusy(th[t].result), status)]
    /\ UNCHANGED <<cfg, ring, san, _CACHE, req, clock, SSE_TAIL, SSE_RAW, LAST_SEEN, hook>>

----------------------------------------------------------------------------
(* Signature Verifier                                                      *)

\* base64(HMAC-SHA256(key, body)): a keyed hash, modelled as collision-free
B64Hmac(key, body) ==
    [s |-> "mac", ascii |-> TRUE, key |-> key, body |-> body]

\* header values: absent, empty, a string that is no base64 digest
NoneSig == [s |-> "none", ascii |-> TRUE, key |-> <<>>, body |-> <<>>]
EmptySig == [s |-> "empty", ascii |-> TRUE, key |-> <<>>, body |-> <<>>]
NonAsciiSig == [s |-> "junk", ascii |-> FALSE, key |-> <<>>, body |-> <<>>]

\* "true", "false", or "raise": hmac.compare_digest raises TypeError on a
\* str with non-ASCII characters
verify_line_signature(body, signature, secret) ==
    IF signature.s \in {"none", "empty"} \/ secret = <<>> THEN "false"
    ELSE IF ~signature.ascii THEN "raise"
    ELSE IF B64Hmac(secret, body) = signature THEN "true" ELSE "false"

----------------------------------------------------------------------------
(* LINE webhook                                                            *)

\* an event of the envelope: type, message.type, message.text, replyToken,
\* source.userId, source.groupId, source.roomId (<<>> when absent)
Event(type, mtype, text, replyToken, userId, groupId) ==
    [type |-> type, mtype |-> mtype, text |-> text, replyToken |-> replyToken,
     userId |-> userId, groupId |-> groupId, roomId |-> <<>>]

\* x or y on strings
Or2(x, y) == IF x # <<>> THEN x ELSE y

_extract_push_to_id(source) == Or2(source.userId, Or2(source.groupId, source.roomId))

\* a slip: the text is not stripped before the emptiness test
Qualifies_nostrip(ev) ==
    /\ ev.type = "message"
    /\ ev.mtype = "text"
    /\ OrEmpty(ev.text) # <<>>

\* lines 490-499: the event is a text message with text left after strip()
Qualifies(ev) ==
    /\ ev.type = "message"
    /\ ev.mtype = "text"
    /\ Strip(OrEmpty(ev.text)) # <<>>

RECURSIVE CountQualifying(_)
CountQualifying(evs) ==
    IF evs = <<>> THEN 0
    ELSE (IF Qualifies(Head(evs)) THEN 1 ELSE 0) + CountQualifying(Tail(evs))

NoSeen == [at |-> 0, push_to |-> <<>>, reply_token |-> <<>>, user_text |-> <<>>]

IdleHook ==
    [pc |-> "idle", events |-> <<>>, cur |-> 0, resp |-> 0, nreq |-> 0, nmsg |-> 0,
     sig |-> NoneSig, body |-> <<>>]

MaxReqs == 1

\* lines 479-487: a request arrives with this body and X-Line-Signature
Webhook(body, signature) ==
    /\ hook.pc = "idle"
    /\ hook.nreq < MaxReqs
    /\ hook.nmsg + CountQualifying(body) <= MaxMsgs
    /\ LET v == verify_line_signature(body, signature, cfg.secret)
           h == [hook EXCEPT !.nreq = @ + 1, !.sig = signature, !.body = body]
       IN  hook' = IF v = "raise" THEN [h EXCEPT !.resp = 500]
                   ELSE IF v = "false" THEN [h EXCEPT !.resp = 403]
                   ELSE IF body = <<>> THEN [h EXCEPT !.resp = 200]
                   ELSE [h EXCEPT !.pc = "loop", !.events = body, !.resp = 0]
    /\ UNCHANGED <<cfg, ring, san, _CACHE, req, clock, SSE_TAIL, SSE_RAW, LAST_SEEN, th, out>>

\* a slip: a failed acknowledgment propagates out of the handler
AfterAck_abort(h, m, status) ==
    IF status = "200" THEN [h EXCEPT !.pc = "spawn", !.cur = m, !.nmsg = m]
    ELSE [h EXCEPT !.pc = "idle", !.events = <<>>, !.nmsg = m, !.resp = 500]

\* the handler once line_reply has returned (527): whatever the outcome of
\* the POST, it goes on to start the push worker
AfterAck(h, m, status) == [h EXCEPT !.pc = "spawn", !.cur = m, !.nmsg = m]

\* a slip: the push worker is given the reply token and replies
Spawn_viaReply ==
    /\ hook.pc = "spawn"
    /\ LET m == hook.cur
       IN  /\ th' = IF out[m].push_to # <<>>
                    THEN [th EXCEPT ![m] = StartThread("replyonce", out[m].reply_token)]
                    ELSE th
           /\ out' = [out EXCEPT ![m].dispatched = TRUE]
    /\ hook' = [hook EXCEPT !.pc = "loop", !.events = Tail(@), !.cur = 0]
    /\ UNCHANGED <<cfg, ring, san, _CACHE, req, clock, SSE_TAIL, SSE_RAW, LAST_SEEN>>

\* one iteration of "for event in events" up to the acknowledgment
\* (lines 489-527); in reply_once mode the whole iteration (518-524)
HandleEvent(status) ==
    /\ hook.pc = "loop"
    /\ hook.events # <<>>
    /\ LET ev == Head(hook.events)
           m == hook.nmsg + 1
           user_text == Strip(OrEmpty(ev.text))
           reply_token == ev.replyToken
           push_to == _extract_push_to_id(ev)
           o == [NoMsg EXCEPT !.seen = TRUE, !.reply_token = reply_token,
                              !.push_to = push_to]
       IN  IF ~Qualifies(ev)
           THEN /\ hook' = [hook EXCEPT !.events = Tail(@)]
                /\ UNCHANGED <<LAST_SEEN, th, out>>
           ELSE /\ LAST_SEEN' = [at |-> clock, push_to |-> push_to,
                                 reply_token |-> reply_token, user_text |-> user_text]
                /\ IF cfg.mode = "reply_once"
                   THEN /\ hook' = [hook EXCEPT !.events = Tail(@), !.nmsg = m]
                        /\ out' = [out EXCEPT ![m] = [o EXCEPT !.dispatched = TRUE]]
                        /\ th' = IF reply_token # <<>>
                                 THEN [th EXCEPT ![m] = StartThread("replyonce", reply_token)]
                                 ELSE th
                   ELSE /\ hook' = AfterAck(hook, m,
                                            IF reply_token # <<>> /\ cfg.access_token
                                            THEN status ELSE "200")
                        /\ out' = [out EXCEPT ![m] =
                                     IF reply_token # <<>>
                                     THEN line_reply(o, cfg.access_token, reply_token,
                                                     ACK_TEXT, status)
                                     ELSE o]
                        /\ UNCHANGED th
    /\ UNCHANGED <<cfg, ring, san, _CACHE, req, clock, SSE_TAIL, SSE_RAW>>

\* lines 528-533: after the acknowledgment, start the push worker
Spawn ==
    /\ hook.pc = "spawn"
    /\ LET m == hook.cur
       IN  /\ th' = IF out[m].push_to # <<>>
                    THEN [th EXCEPT ![m] = StartThread("ackpush", out[m].push_to)]
                    ELSE th
           /\ out' = [out EXCEPT ![m].dispatched = TRUE]
    /\ hook' = [hook EXCEPT !.pc = "loop", !.events = Tail(@), !.cur = 0]
    /\ UNCHANGED <<cfg, ring, san, _CACHE, req, clock, SSE_TAIL, SSE_RAW, LAST_SEEN>>

\* line 535: return {"status": "ok"}
WebhookReturn ==
    /\ hook.pc = "loop"
    /\ hook.events = <<>>
    /\ hook' = [hook EXCEPT !.pc = "idle", !.resp = 200]
    /\ UNCHANGED <<cfg, ring, san, _CACHE, req, clock, SSE_TAIL, SSE_RAW, LAST_SEEN, th, out>>

----------------------------------------------------------------------------
(* Inputs                                                                  *)

t_Hi == <<"H","i">>
t_thought == <<"T","h","e"," ","a","n","s","w","e","r"," ","i","s"," ","4","2",".">>
t_tok == <<"r","t">>
t_uid == <<"U","1">>
t_gid == <<"C","1">>
t_key == <<"k">>

TokenLine == DataLine(Obj(s_agent_message, t_Hi, None, None))
ThoughtLine == DataLine(Obj(s_agent_thought, None, t_thought, <<>>))
EndLine == DataLine(Obj(s_message_end, None, None, None))
\* a terminal event that carries trailing text
EndTextLine == DataLine(Obj(s_workflow_finished, t_Hi, None, None))
ErrorLine == DataLine(Obj(s_error, None, None, None))
BadLine == DataOther("bad")

\* the lines a stream is made of
Lines == {BlankLine, TokenLine, ThoughtLine, EndLine, EndTextLine, ErrorLine, BadLine}

\* seconds between two polls
Deltas == {0, 60}

\* seconds until a read raises: at once (connection lost) or the read timeout
RaiseDeltas == {0, READ_TIMEOUT_SECONDS}

Configs ==
    [mode : {"ack_push", "reply_once"}, secret : {<<>>, t_key},
     access_token : BOOLEAN, dify_key : BOOLEAN]

----------------------------------------------------------------------------
(* SpecAgg: one background unit, from its start to its send, over every    *)
(* stream of at most MaxLines lines.  It starts in the state line_webhook  *)
(* leaves after dispatching one text message that has a reply token and a  *)
(* user id.                                                                *)

DispatchedOne(c) ==
    LET o == [NoMsg EXCEPT !.seen = TRUE, !.dispatched = TRUE,
                           !.reply_token = t_tok, !.push_to = t_uid]
    IN  IF c.mode = "reply_once" THEN o
        ELSE line_reply(o, c.access_token, t_tok, ACK_TEXT, "200")

FirstBody == <<Event("message", "text", t_Hi, t_tok, t_uid, <<>>)>>

InitAgg ==
    /\ cfg \in {c \in Configs : c.secret = t_key}
    /\ clock = 0
    /\ SSE_TAIL = <<>>
    /\ SSE_RAW = <<>>
    /\ LAST_SEEN = [at |-> 0, push_to |-> t_uid, reply_token |-> t_tok,
                    user_text |-> t_Hi]
    /\ th = [t \in Threads |->
               IF t = 1
               THEN IF cfg.mode = "reply_once" THEN StartThread("replyonce", t_tok)
                    ELSE StartThread("ackpush", t_uid)
               ELSE NoThread]
    /\ hook = [IdleHook EXCEPT !.resp = 200, !.nreq = 1, !.nmsg = 1,
                               !.sig = B64Hmac(t_key, FirstBody), !.body = FirstBody]
    /\ out = [m \in Threads |-> IF m = 1 THEN DispatchedOne(cfg) ELSE NoMsg]
    /\ ring = NoRing
    /\ san = NoCall
    /\ _CACHE = NoCache
    /\ req = NoReqs

NextAgg ==
    \/ \E t \in Threads : AggNoKey(t)
    \/ \E t \in Threads, st \in OpenStatus, d \in Deltas : AggOpen(t, st, d)
    \/ \E t \in Threads, line \in Lines, d \in Deltas :
          th[t].nlines < MaxLines /\ AggLine(t, line, d)
    \/ \E t \in Threads : AggEOF(t)
    \/ \E t \in Threads, k \in RaiseKinds, d \in RaiseDeltas : AggRaise(t, k, d)
    \/ \E t \in Threads, st \in PostStatus : BgSend(t, st)

SpecAgg == InitAgg /\ [][NextAgg]_vars

----------------------------------------------------------------------------
(* Spec: the webhook handler with the background units it starts.  The     *)
(* handler runs on the event loop, the units on threads of their own, so   *)
(* their steps interleave freely.                                          *)

\* lines read per aggregation under Spec, and requests received
HookMaxLines == 1

EventChoices ==
    { Event("message", "text", t_Hi, t_tok, t_uid, <<>>),
      Event("message", "text", t_Hi, <<>>, t_uid, <<>>),
      Event("message", "text", t_Hi, <<>>, <<>>, t_gid),
      Event("message", "text", t_Hi, t_tok, <<>>, <<>>),
      Event("message", "text", t_Hi, <<>>, <<>>, <<>>),
      Event("message", "text", <<" ">>, t_tok, t_uid, <<>>),
      Event("message", "image", None, t_tok, t_uid, <<>>),
      Event("follow", "none", None, t_tok, t_uid, <<>>) }

MaxEvents == 2

Bodies == UNION { [1..n -> EventChoices] : n \in 0..MaxEvents }

\* the signatures a sender can put on a body: none, empty, the right one,
\* one made with an empty key, one made over another body, one made with
\* another key, and a string that is not ASCII
Signatures(body) ==
    { NoneSig, EmptySig, NonAsciiSig,
      B64Hmac(t_key, body), B64Hmac(<<>>, body), B64Hmac(<<"x">>, body),
      B64Hmac(t_key, <<Event("follow", "none", None, <<>>, <<>>, <<>>)>>) }

HookLines == {TokenLine}

Init ==
    /\ cfg \in Configs
    /\ clock = 0
    /\ SSE_TAIL = <<>>
    /\ SSE_RAW = <<>>
    /\ LAST_SEEN = NoSeen
    /\ th = [t \in Threads |-> NoThread]
    /\ hook = IdleHook
    /\ out = [m \in Threads |-> NoMsg]
    /\ ring = NoRing
    /\ san = NoCall
    /\ _CACHE = NoCache
    /\ req = NoReqs

Next ==
    \/ \E body \in Bodies : \E sig \in Signatures(body) : Webhook(body, sig)
    \/ \E st \in PostStatus : HandleEvent(st)
    \/ Spawn
    \/ WebhookReturn
    \/ \E t \in Threads : AggNoKey(t)
    \/ \E t \in Threads, st \in {"200", "500"} : AggOpen(t, st, 0)
    \/ \E t \in Threads, line \in HookLines :
          th[t].nlines < HookMaxLines /\ AggLine(t, line, 0)
    \/ \E t \in Threads : AggEOF(t)
    \/ \E t \in Threads : AggRaise(t, "exception", 0)
    \/ \E t \in Threads, st \in PostStatus : BgSend(t, st)

Spec == Init /\ [][Next]_vars

----------------------------------------------------------------------------
(* SpecTok: one background unit over streams of two different one-letter   *)
(* fragments, long enough for both to be accepted before a terminal event. *)

t_A == <<"A">>
t_B == <<"B">>

TokALine == DataLine(Obj(s_agent_message, t_A, None, None))
TokBLine == DataLine(Obj(s_agent_message, t_B, None, None))

TokLines == {BlankLine, TokALine, TokBLine, EndLine}

TokMaxLines == 6

NextTok ==
    \/ \E t \in Threads : AggNoKey(t)
    \/ \E t \in Threads, st \in {"200", "500"} : AggOpen(t, st, 0)
    \/ \E t \in Threads, line \in TokLines, d \in Deltas :
          th[t].nlines < TokMaxLines /\ AggLine(t, line, d)
    \/ \E t \in Threads : AggEOF(t)
    \/ \E t \in Threads : AggRaise(t, "exception", 0)
    \/ \E t \in Threads, st \in PostStatus : BgSend(t, st)

SpecTok == InitAgg /\ [][NextTok]_vars

----------------------------------------------------------------------------
(* SpecNoise: one background unit over streams in which every payload is   *)
(* noise: blank after trimming, an event-name literal, an identifier in    *)
(* UUID form, a short snake_case name, or text riding on an ignorable      *)
(* lifecycle event.                                                        *)

t_uuid ==
    [i \in 1..36 |-> IF i \in {9, 14, 19, 24} THEN "-"
                     ELSE IF i % 2 = 0 THEN "4" ELSE "c"]

NoiseLines ==
    { BlankLine, EndLine,
      DataLine(Obj(s_agent_message, s_workflow_started, None, None)),
      DataLine(Obj(s_agent_message, s_message, None, None)),
      DataLine(Obj(s_agent_message, t_uuid, None, None)),
      DataLine(Obj(s_agent_message, <<"g","e","t","_","i","d">>, None, None)),
      DataLine(Obj(s_agent_message, <<" ","\n">>, None, None)),
      DataLine(Obj(s_node_finished, t_Hi, None, None)) }

NoiseMaxLines == 4

NextNoise ==
    \/ \E t \in Threads : AggNoKey(t)
    \/ \E t \in Threads, st \in {"200", "500"} : AggOpen(t, st, 0)
    \/ \E t \in Threads, line \in NoiseLines, d \in Deltas :
          th[t].nlines < NoiseMaxLines /\ AggLine(t, line, d)
    \/ \E t \in Threads : AggEOF(t)
    \/ \E t \in Threads : AggRaise(t, "exception", 0)
    \/ \E t \in Threads, st \in PostStatus : BgSend(t, st)

SpecNoise == InitAgg /\ [][NextNoise]_vars

----------------------------------------------------------------------------
(* SpecRing: the two append functions as their callers run them, one       *)
(* statement part at a time.  Nothing serializes the callers (background   *)
(* threads) and the debug endpoints (thread-pool workers): a thread switch *)
(* can fall between list.append, the len() test, the evaluation of the     *)
(* slice bound and the slice deletion.  The buffers start one entry below  *)
(* capacity, as they are after 79 and 49 records were decoded.             *)

\* appends per caller
MaxAppends == 1

\* debug_reset calls
MaxResets == 1

Buf(b) == IF b = "tail" THEN SSE_TAIL ELSE SSE_RAW
Cap(b) == IF b = "tail" THEN SSE_TAIL_MAX ELSE SSE_RAW_MAX

SetBuf(b, v) ==
    IF b = "tail" THEN SSE_TAIL' = v /\ UNCHANGED SSE_RAW
    ELSE SSE_RAW' = v /\ UNCHANGED SSE_TAIL

\* del lst[: n]
DelHead(lst, n) ==
    LET k == IF n >= 0 THEN (IF n < Len(lst) THEN n ELSE Len(lst))
             ELSE (IF Len(lst) + n > 0 THEN Len(lst) + n ELSE 0)
    IN  SubSeq(lst, k + 1, Len(lst))

\* what is appended: diagnostic items to SSE_TAIL, records to SSE_RAW
Entries(b) ==
    IF b = "tail" THEN {[t |-> clock, kind |-> k] : k \in {"event", "eof"}}
    ELSE {TokenLine.obj, EndLine.obj}

Log(r, b, e) ==
    IF b = "tail" THEN [r EXCEPT !.logTail = Append(@, e)]
    ELSE [r EXCEPT !.logRaw = Append(@, e)]

\* SSE_TAIL.append(item) (221) / SSE_RAW.append(obj) (227)
RingAppend(i, b, e) ==
    /\ ring.w[i].pc = "idle"
    /\ ring.w[i].done < MaxAppends
    /\ SetBuf(b, Append(Buf(b), e))
    /\ ring' = Log([ring EXCEPT !.w[i].pc = "appended", !.w[i].buf = b], b, e)
    /\ UNCHANGED <<cfg, clock, LAST_SEEN, th, hook, out, san, _CACHE, req>>

\* if len(SSE_TAIL) > SSE_TAIL_MAX (222) / if len(SSE_RAW) > SSE_RAW_MAX (228)
RingTest(i) ==
    /\ ring.w[i].pc = "appended"
    /\ ring' = IF Len(Buf(ring.w[i].buf)) > Cap(ring.w[i].buf)
               THEN [ring EXCEPT !.w[i].pc = "over"]
               ELSE [ring EXCEPT !.w[i].pc = "idle", !.w[i].done = @ + 1]
    /\ UNCHANGED <<cfg, clock, SSE_TAIL, SSE_RAW, LAST_SEEN, th, hook, out, san, _CACHE, req>>

\* the slice bound len(SSE_TAIL) - SSE_TAIL_MAX of line 223 (229)
RingSize(i) ==
    /\ ring.w[i].pc = "over"
    /\ ring' = [ring EXCEPT !.w[i].pc = "del",
                            !.w[i].n = Len(Buf(ring.w[i].buf)) - Cap(ring.w[i].buf)]
    /\ UNCHANGED <<cfg, clock, SSE_TAIL, SSE_RAW, LAST_SEEN, th, hook, out, san, _CACHE, req>>

\* del SSE_TAIL[: n] (223) / del SSE_RAW[: n] (229)
RingDel(i) ==
    /\ ring.w[i].pc = "del"
    /\ SetBuf(ring.w[i].buf, DelHead(Buf(ring.w[i].buf), ring.w[i].n))
    /\ ring' = [ring EXCEPT !.w[i].pc = "idle", !.w[i].n = 0, !.w[i].done = @ + 1]
    /\ UNCHANGED <<cfg, clock, LAST_SEEN, th, hook, out, san, _CACHE, req>>

\* GET /debug/sse: {"count": len(SSE_TAIL), ...}
debug_sse ==
    /\ ring' = [ring EXCEPT !.seenTail = Len(SSE_TAIL)]
    /\ UNCHANGED <<cfg, clock, SSE_TAIL, SSE_RAW, LAST_SEEN, th, hook, out, san, _CACHE, req>>

\* GET /debug/sse/raw_tail: {"count": len(SSE_RAW), ...}
debug_sse_raw_tail ==
    /\ ring' = [ring EXCEPT !.seenRaw = Len(SSE_RAW)]
    /\ UNCHANGED <<cfg, clock, SSE_TAIL, SSE_RAW, LAST_SEEN, th, hook, out, san, _CACHE, req>>

\* POST /debug/reset: SSE_TAIL.clear(); SSE_RAW.clear()
debug_reset ==
    /\ ring.nops < MaxResets
    /\ SSE_TAIL' = <<>>
    /\ SSE_RAW' = <<>>
    /\ ring' = [ring EXCEPT !.logTail = <<>>, !.logRaw = <<>>, !.nops = @ + 1]
    /\ UNCHANGED <<cfg, clock, LAST_SEEN, th, hook, out, san, _CACHE, req>>

InitRing ==
    /\ cfg = [mode |-> "ack_push", secret |-> t_key, access_token |-> TRUE,
              dify_key |-> TRUE]
    /\ clock = 0
    /\ SSE_TAIL = [i \in 1..(SSE_TAIL_MAX - 1) |-> [t |-> 0, kind |-> "event"]]
    /\ SSE_RAW = [i \in 1..(SSE_RAW_MAX - 1) |-> TokenLine.obj]
    /\ LAST_SEEN = NoSeen
    /\ th = [t \in Threads |-> NoThread]
    /\ hook = IdleHook
    /\ out = [m \in Threads |-> NoMsg]
    /\ ring = [NoRing EXCEPT !.logTail = SSE_TAIL, !.logRaw = SSE_RAW]
    /\ san = NoCall
    /\ _CACHE = NoCache
    /\ req = NoReqs

NextRing ==
    \/ \E i \in Writers, b \in {"tail", "raw"} : \E e \in Entries(b) : RingAppend(i, b, e)
    \/ \E i \in Writers : RingTest(i)
    \/ \E i \in Writers : RingSize(i)
    \/ \E i \in Writers : RingDel(i)
    \/ debug_sse
    \/ debug_sse_raw_tail
    \/ debug_reset

SpecRing == InitRing /\ [][NextRing]_vars

----------------------------------------------------------------------------
(* SpecRingSeq: appends that run to completion one after another, and      *)
(* resets between them.                                                    *)

MaxSeqAppends == 4

\* one whole call of _sse_tail_add (214-223) or _sse_raw_add (226-229)
SeqAdd(b, e) ==
    /\ ring.w[1].done < MaxSeqAppends
    /\ SetBuf(b, IF b = "tail" THEN _sse_tail_add(SSE_TAIL, e.t, e.kind)
                 ELSE _sse_raw_add(SSE_RAW, e))
    /\ ring' = Log([ring EXCEPT !.w[1].done = @ + 1], b, e)
    /\ UNCHANGED <<cfg, clock, LAST_SEEN, th, hook, out, san, _CACHE, req>>

NextRingSeq ==
    \/ \E b \in {"tail", "raw"} : \E e \in Entries(b) : SeqAdd(b, e)
    \/ debug_reset

SpecRingSeq == InitRing /\ [][NextRingSeq]_vars

----------------------------------------------------------------------------
(* SpecTrunc: one call of _truncate_for_line, for every text of up to      *)
(* MaxText characters with at most one blank in it and every limit up to   *)
(* MaxLimit (the marker is 10 characters long).                            *)

MaxText == 14
MaxLimit == 13

\* n characters, the i-th a blank (none for i = 0)
TruncTexts ==
    { [j \in 1..n |-> IF j = i THEN " " ELSE "a"] : n \in 0..MaxText, i \in 0..MaxText }

InitTrunc ==
    /\ cfg = [mode |-> "ack_push", secret |-> t_key, access_token |-> TRUE,
              dify_key |-> TRUE]
    /\ clock = 0
    /\ SSE_TAIL = <<>>
    /\ SSE_RAW = <<>>
    /\ LAST_SEEN = NoSeen
    /\ th = [t \in Threads |-> NoThread]
    /\ hook = IdleHook
    /\ out = [m \in Threads |-> NoMsg]
    /\ ring = NoRing
    /\ san \in { [pc |-> "called", text |-> tx, max_chars |-> n, result |-> <<>>] :
                  tx \in TruncTexts, n \in 0..MaxLimit }
    /\ _CACHE = NoCache
    /\ req = NoReqs

\* the call returns
TruncReturn ==
    /\ san.pc = "called"
    /\ san' = [san EXCEPT !.pc = "returned",
                          !.result = _truncate_for_line(san.text, san.max_chars)]
    /\ UNCHANGED <<cfg, clock, SSE_TAIL, SSE_RAW, LAST_SEEN, th, hook, out, ring, _CACHE, req>>

NextTrunc == TruncReturn

SpecTrunc == InitTrunc /\ [][NextTrunc]_vars

----------------------------------------------------------------------------
(* SpecLong: one background unit over streams whose fragments and thoughts *)
(* are one character longer than the platform limit.                       *)

t_long == [i \in 1..(LINE_MAX_CHARS + 1) |-> "x"]

LongLines ==
    { BlankLine, EndLine,
      DataLine(Obj(s_agent_message, t_long, None, None)),
      DataLine(Obj(s_agent_thought, None, t_long, <<>>)) }

LongMaxLines == 3

NextLong ==
    \/ \E t \in Threads : AggNoKey(t)
    \/ \E t \in Threads, st \in {"200", "500"} : AggOpen(t, st, 0)
    \/ \E t \in Threads, line \in LongLines, d \in Deltas :
          th[t].nlines < LongMaxLines /\ AggLine(t, line, d)
    \/ \E t \in Threads : AggEOF(t)
    \/ \E t \in Threads : AggRaise(t, "exception", 0)
    \/ \E t \in Threads, st \in PostStatus : BgSend(t, st)

SpecLong == InitAgg /\ [][NextLong]_vars

----------------------------------------------------------------------------
(* SpecBad: one background unit over streams with blocks whose data line   *)
(* is not JSON, blocks framed with an "event:" line, and records that name *)
(* no event themselves.                                                    *)

BadLines ==
    { BlankLine, BadLine, EventLine(s_error), TokenLine,
      DataLine(Obj(None, t_Hi, None, None)) }

BadMaxLines == 5

NextBad ==
    \/ \E t \in Threads : AggNoKey(t)
    \/ \E t \in Threads, st \in {"200", "500"} : AggOpen(t, st, 0)
    \/ \E t \in Threads, line \in BadLines, d \in Deltas :
          th[t].nlines < BadMaxLines /\ AggLine(t, line, d)
    \/ \E t \in Threads : AggEOF(t)
    \/ \E t \in Threads : AggRaise(t, "exception", 0)
    \/ \E t \in Threads, st \in PostStatus : BgSend(t, st)

SpecBad == InitAgg /\ [][NextBad]_vars

----------------------------------------------------------------------------
(* SpecTwo: two background units in flight at once, started for the two    *)
(* text messages of one envelope; their steps interleave freely and they   *)
(* read the same clock.                                                    *)

TwoLines == {BlankLine, TokenLine, ThoughtLine, EndLine}

TwoMaxLines == 2

InitTwo ==
    /\ cfg \in {c \in Configs : c.secret = t_key /\ c.dify_key /\ c.access_token}
    /\ clock = 0
    /\ SSE_TAIL = <<>>
    /\ SSE_RAW = <<>>
    /\ LAST_SEEN = [at |-> 0, push_to |-> t_uid, reply_token |-> t_tok,
                    user_text |-> t_Hi]
    /\ th = [t \in Threads |->
               IF cfg.mode = "reply_once" THEN StartThread("replyonce", t_tok)
               ELSE StartThread("ackpush", t_uid)]
    /\ hook = [IdleHook EXCEPT !.resp = 200, !.nreq = 1, !.nmsg = MaxMsgs,
                               !.sig = B64Hmac(t_key, FirstBody \o FirstBody),
                               !.body = FirstBody \o FirstBody]
    /\ out = [m \in Threads |-> DispatchedOne(cfg)]
    /\ ring = NoRing
    /\ san = NoCall
    /\ _CACHE = NoCache
    /\ req = NoReqs

NextTwo ==
    \/ \E t \in Threads : AggOpen(t, "200", 0)
    \/ \E t \in Threads, line \in TwoLines, d \in Deltas :
          th[t].nlines < TwoMaxLines /\ AggLine(t, line, d)
    \/ \E t \in Threads : AggEOF(t)
    \/ \E t \in Threads : AggRaise(t, "exception", 0)
    \/ \E t \in Threads : BgSend(t, "200")

SpecTwo == InitTwo /\ [][NextTwo]_vars

----------------------------------------------------------------------------
(* SpecMix: one background unit over streams that mix the noise payloads   *)
(* with usable fragments, one of them padded with whitespace.              *)

MixMaxLines == 3

NextMix ==
    \/ \E t \in Threads : AggNoKey(t)
    \/ \E t \in Threads, st \in {"200", "500"} : AggOpen(t, st, 0)
    \/ \E t \in Threads, d \in Deltas :
          \E line \in NoiseLines \cup
                        {TokenLine,
                         DataLine(Obj(s_agent_message, <<" ", "A", "\n">>, None, None))} :
             th[t].nlines < MixMaxLines /\ AggLine(t, line, d)
    \/ \E t \in Threads : AggEOF(t)
    \/ \E t \in Threads : AggRaise(t, "exception", 0)
    \/ \E t \in Threads, st \in PostStatus : BgSend(t, st)

SpecMix == InitAgg /\ [][NextMix]_vars

----------------------------------------------------------------------------
(* Monitoring service: the response cache under concurrent requests        *)

\* entry = _CACHE.get(key); a missing entry returns None to the tool
get_cache(w, k) ==
    /\ req[w].pc = "idle"
    /\ req[w].calls < MaxCalls
    /\ req' = [req EXCEPT ![w] =
                 IF _CACHE[k] = NoEntry
                 THEN [@ EXCEPT !.pc = "miss", !.key = k, !.entry = NoEntry,
                                !.calls = @ + 1, !.last = "None",
                                !.expired = FALSE]
                 ELSE [@ EXCEPT !.pc = "test", !.key = k, !.entry = _CACHE[k],
                                !.calls = @ + 1, !.last = "",
                                !.expired = FALSE]]
    /\ UNCHANGED <<cfg, ring, san, _CACHE, clock, SSE_TAIL, SSE_RAW, LAST_SEEN,
                   th, hook, out>>

\* the expiry test on the entry fetched before; a live entry is returned
\* and the tool answers with it
GetTest(w) ==
    /\ req[w].pc = "test"
    /\ req' = [req EXCEPT ![w] =
                 IF clock - req[w].entry.ts > TTL_SECONDS
                 THEN [@ EXCEPT !.pc = "del", !.expired = TRUE, !.at = clock]
                 ELSE [@ EXCEPT !.pc = "idle", !.last = "data",
                                !.got = req[w].entry, !.at = clock]]
    /\ UNCHANGED <<cfg, ring, san, _CACHE, clock, SSE_TAIL, SSE_RAW, LAST_SEEN,
                   th, hook, out>>

\* del _CACHE[key], then None; the statement raises KeyError when the key
\* is no longer in the dictionary, and the request fails
GetDel(w) ==
    /\ req[w].pc = "del"
    /\ IF _CACHE[req[w].key] = NoEntry
       THEN /\ req' = [req EXCEPT ![w].pc = "idle", ![w].last = "KeyError"]
            /\ UNCHANGED _CACHE
       ELSE /\ _CACHE' = [_CACHE EXCEPT ![req[w].key] = NoEntry]
            /\ req' = [req EXCEPT ![w].pc = "miss", ![w].last = "None"]
    /\ UNCHANGED <<cfg, ring, san, clock, SSE_TAIL, SSE_RAW, LAST_SEEN,
                   th, hook, out>>

\* after a miss the tool builds its result and stores it
set_cache(w) ==
    /\ req[w].pc = "miss"
    /\ _CACHE' = [_CACHE EXCEPT ![req[w].key] = [ts |-> clock, data |-> clock]]
    /\ req' = [req EXCEPT ![w].pc = "idle"]
    /\ UNCHANGED <<cfg, ring, san, clock, SSE_TAIL, SSE_RAW, LAST_SEEN,
                   th, hook, out>>

\* after a miss the call to the cloud provider raises: nothing is stored
AwsRaise(w) ==
    /\ req[w].pc = "miss"
    /\ req' = [req EXCEPT ![w].pc = "idle"]
    /\ UNCHANGED <<cfg, ring, san, _CACHE, clock, SSE_TAIL, SSE_RAW, LAST_SEEN,
                   th, hook, out>>

\* time passes
CacheTick(d) ==
    /\ clock + d <= MaxClock
    /\ clock' = clock + d
    /\ UNCHANGED <<cfg, ring, san, _CACHE, req, SSE_TAIL, SSE_RAW, LAST_SEEN,
                   th, hook, out>>

NextCache ==
    \/ \E w \in Workers, k \in CacheKeys : get_cache(w, k)
    \/ \E w \in Workers : GetTest(w)
    \/ \E w \in Workers : GetDel(w)
    \/ \E w \in Workers : set_cache(w)
    \/ \E w \in Workers : AwsRaise(w)
    \/ \E d \in {60, 121} : CacheTick(d)

\* the monitoring service is a process of its own: the configuration of the
\* chat service plays no part in it
InitCache == InitAgg /\ cfg.mode = "ack_push" /\ cfg.access_token /\ cfg.dify_key

SpecCache == InitCache /\ [][NextCache]_vars

----------------------------------------------------------------------------
(* Properties                                                              *)

Ended(t) == th[t].pc \in {"returned", "done"}

\* the fallback chain in the words of the specification: the collected text
\* if non-empty, else the fallback thought, else the busy text (sanitized)
Chain(t) ==
    LET text == Join(th[t].parts)
    IN  IF text # <<>> THEN _truncate_for_line(text, LINE_MAX_CHARS)
        ELSE IF th[t].last_good_thought # <<>>
        THEN _truncate_for_line(th[t].last_good_thought, LINE_MAX_CHARS)
        ELSE BUSY_TEXT

\* C1: a background unit makes at most one outbound call, and only after its
\* aggregation has returned; the aggregation returns at most once, however
\* it ended, and the answer of a message is posted at most once.
C1_OneSendAfterAggregation ==
    \A t \in Threads :
        /\ th[t].ends <= 1
        /\ out[t].bgCalls <= 1
        /\ th[t].pc \in {"none", "start", "stream"} =>
              th[t].ends = 0 /\ out[t].bgCalls = 0
        /\ th[t].pc = "returned" => th[t].ends = 1 /\ out[t].bgCalls = 0
        /\ th[t].pc = "done" => th[t].ends = 1 /\ out[t].bgCalls = 1
        /\ th[t].kind = "ackpush" => out[t].pushPosts <= out[t].bgCalls
        /\ th[t].kind = "replyonce" => out[t].replyPosts <= out[t].bgCalls

\* C1 witness: a unit whose aggregation ended on the hard deadline has pushed
\* its answer.
C1_Witness ==
    \E t \in Threads :
        /\ th[t].pc = "done"
        /\ th[t].endkind = "overall_timeout"
        /\ th[t].kind = "ackpush"
        /\ out[t].pushPosts = 1

\* a message is settled when the handler is done with it and its background
\* unit, if one was started, has finished
Settled(m) == out[m].dispatched /\ th[m].pc \in {"none", "done"}

\* C2: with the platform credential configured, every accepted text message
\* that is settled has had at least one outbound POST (reply or push) made
\* for it.
C2_EveryMessageGetsASend ==
    \A m \in Threads :
        (cfg.access_token /\ Settled(m)) =>
            out[m].replyPosts + out[m].pushPosts >= 1

\* C3: line_reply is called with a message's reply token at most once, and at
\* most one reply POST is made with it, whatever its outcome.
C3_ReplyAtMostOnce ==
    \A m \in Threads : out[m].replyCalls <= 1 /\ out[m].replyPosts <= 1

\* C3 witness: two messages of one envelope have each been replied to once,
\* the second by its background unit in reply-once mode.
C3_Witness ==
    /\ cfg.mode = "reply_once"
    /\ \A m \in Threads : out[m].replyPosts = 1 /\ th[m].pc = "done"

\* the signature is one the claim calls bad: missing, empty, no secret
\* configured, or different from the digest of the body
BadSignature(sig, body) ==
    \/ sig.s \in {"none", "empty"}
    \/ cfg.secret = <<>>
    \/ sig # B64Hmac(cfg.secret, body)

\* C4: a request with a bad signature is answered 403 and changes nothing;
\* only a request with a good signature reaches the dispatch loop.
C4_BadSignatureRejected ==
    [][ hook'.nreq = hook.nreq + 1 =>
          IF BadSignature(hook'.sig, hook'.body)
          THEN /\ hook'.resp = 403
               /\ hook'.pc = "idle"
               /\ UNCHANGED <<th, out, LAST_SEEN, SSE_TAIL, SSE_RAW>>
          ELSE hook'.pc = "loop" \/ hook'.resp = 200 ]_vars

\* no event of the body is a text message with text left after trimming
NoQualifyingEvent(body) ==
    \A i \in 1..Len(body) :
        \/ body[i].type # "message"
        \/ body[i].mtype # "text"
        \/ Strip(OrEmpty(body[i].text)) = <<>>

\* C5: while the handler works on a verified envelope with no qualifying
\* event it starts no background unit, sends nothing and leaves LAST_SEEN
\* alone, and it returns the success response.
C5_NoQualifyingNoSend ==
    [][ (hook' # hook /\ ~BadSignature(hook'.sig, hook'.body)
         /\ NoQualifyingEvent(hook'.body)) =>
          /\ UNCHANGED <<th, out, LAST_SEEN>>
          /\ hook'.pc \in {"idle", "loop"}
          /\ hook'.pc = "idle" => hook'.resp = 200 ]_vars

\* C5 witness: the handler has returned 200 for a verified envelope of two
\* events, neither of them qualifying.
C5_Witness ==
    /\ hook.pc = "idle"
    /\ hook.resp = 200
    /\ Len(hook.body) = 2
    /\ NoQualifyingEvent(hook.body)
    /\ ~BadSignature(hook.sig, hook.body)

\* C6: an aggregation in which an error event was decoded returned the busy
\* text.
C6_ErrorYieldsBusy ==
    \A t \in Threads : (Ended(t) /\ th[t].sawError) => th[t].result = BUSY_TEXT

\* C7: once a terminal event is decoded the aggregation has stopped, and it
\* returned the collected text if there is any, else the fallback thought,
\* else the busy text.
C7_TerminalYieldsChain ==
    \A t \in Threads :
        th[t].sawEnd =>
            /\ Ended(t)
            /\ th[t].result = Chain(t)
            /\ th[t].got_any_answer => th[t].result # th[t].last_good_thought

\* C7 witness: one qualifying thought, then message_end, no token: the
\* thought is the answer.
C7_Witness ==
    \E t \in Threads :
        /\ th[t].endkind = "end"
        /\ th[t].nlines = 4
        /\ th[t].parts = <<>>
        /\ th[t].result = t_thought

\* C8 as stated: a poll with no token accepted and the idle deadline passed
\* ends the aggregation with the busy text; the idle deadline never ends an
\* aggregation that has accepted a token.
C8_IdleAlwaysBusy ==
    \A t \in Threads :
        /\ th[t].poll.idle => Ended(t) /\ th[t].result = BUSY_TEXT
        /\ th[t].endkind = "no_text_timeout" => ~th[t].got_any_answer

\* C8 amended: the same, unless at that poll the hard deadline has passed
\* too, or the polled line completes a block that decodes to a terminal
\* event, yields the first accepted token, or decodes to no record.
C8_IdleBusyUnlessOutranked ==
    \A t \in Threads :
        /\ (/\ th[t].poll.idle
            /\ ~th[t].poll.hard
            /\ ~th[t].poll.term
            /\ ~th[t].poll.tok
            /\ ~th[t].poll.skipped) =>
              Ended(t) /\ th[t].result = BUSY_TEXT
        /\ th[t].endkind = "no_text_timeout" =>
              ~th[t].got_any_answer /\ th[t].result = BUSY_TEXT

\* C8 witness: the idle deadline ended an aggregation that had collected a
\* fallback thought, and the answer is the busy text.
C8_Witness ==
    \E t \in Threads :
        /\ th[t].endkind = "no_text_timeout"
        /\ th[t].poll.idle
        /\ th[t].last_good_thought = t_thought
        /\ th[t].result = BUSY_TEXT

\* C9: an aggregation that ended after its hard deadline returned the
\* fallback chain of what it had collected.
C9_DeadlineKeepsProgress ==
    \A t \in Threads :
        (Ended(t) /\ th[t].sawOpen /\ th[t].endAt > th[t].overall_deadline) =>
            th[t].result = Chain(t)

\* the outcome of the highest-priority condition that held at a poll, in the
\* order error event, terminal event, hard deadline, idle deadline
PriorityOutcome(t) ==
    IF th[t].poll.err THEN BUSY_TEXT
    ELSE IF th[t].poll.term THEN Chain(t)
    ELSE IF th[t].poll.hard THEN Chain(t)
    ELSE BUSY_TEXT

\* C10: an aggregation ended at a poll returned the outcome of the
\* highest-priority termination condition that held at that poll.
C10_PriorityOrder ==
    \A t \in Threads :
        (Ended(t) /\ th[t].endkind \in {"dify_error_event", "end",
                                        "overall_timeout", "no_text_timeout"}) =>
            th[t].result = PriorityOutcome(t)

\* C11: an aggregation that ended on a terminal event, at the end of the
\* stream or on the hard deadline, having accepted at least one fragment,
\* returned the fragments the stream presented, joined in arrival order.
C11_AnswerIsTokensInOrder ==
    \A t \in Threads :
        (/\ Ended(t)
         /\ th[t].endkind \in {"end", "eof", "overall_timeout"}
         /\ th[t].toks # <<>>) =>
            th[t].result = _truncate_for_line(Join(th[t].toks), LINE_MAX_CHARS)

\* C11 witness: "A", "B", message_end was read block by block and the
\* answer is "AB".
C11_Witness ==
    \E t \in Threads :
        /\ th[t].endkind = "end"
        /\ th[t].nlines = 6
        /\ th[t].toks = <<t_A, t_B>>
        /\ th[t].result = <<"A", "B">>

\* C12: over streams whose payloads are all noise or ride on ignorable
\* events, nothing is ever appended to the collected text, no token is ever
\* counted, and an aggregation that was opened returns the busy text.
C12_NoiseNeverAccepted ==
    \A t \in Threads :
        /\ th[t].parts = <<>>
        /\ ~th[t].got_any_answer
        /\ (Ended(t) /\ th[t].sawOpen) => th[t].result = BUSY_TEXT

\* C12 witness: a stream whose only payload was "workflow_started" ended,
\* the record was decoded, and the answer is the busy text.
C12_Witness ==
    \E t \in Threads :
        /\ th[t].endkind = "eof"
        /\ th[t].nlines = 1
        /\ Len(SSE_RAW) = 1
        /\ SSE_RAW[1].answer = s_workflow_started
        /\ th[t].result = BUSY_TEXT

\* the newest min(n, cap) entries of a log of n entries, in append order
LastOf(log, cap) ==
    SubSeq(log, (IF Len(log) > cap THEN Len(log) - cap ELSE 0) + 1, Len(log))

\* C13: the count a debug endpoint returns never exceeds the capacity of the
\* buffer it read, and whenever no caller is inside an append each buffer
\* holds the newest entries appended since the last reset, up to capacity.
C13_ReadersSeeBoundedBuffers ==
    /\ ring.seenTail <= SSE_TAIL_MAX
    /\ ring.seenRaw <= SSE_RAW_MAX
    /\ (\A i \in Writers : ring.w[i].pc = "idle") =>
          /\ SSE_TAIL = LastOf(ring.logTail, SSE_TAIL_MAX)
          /\ SSE_RAW = LastOf(ring.logRaw, SSE_RAW_MAX)

EndsWithMarker(s) ==
    /\ Len(s) >= Len(TRUNC_SUFFIX)
    /\ SubSeq(s, Len(s) - Len(TRUNC_SUFFIX) + 1, Len(s)) = TRUNC_SUFFIX

\* what precedes the last Len(TRUNC_SUFFIX) characters of s
BeforeMarker(s) == SubSeq(s, 1, Len(s) - Len(TRUNC_SUFFIX))

\* C15 as stated: for a text whose trimmed length exceeds the limit the
\* result is exactly as long as the limit, ends with the marker, and what
\* precedes the marker is a prefix of the trimmed text.
C15_TruncExactLength ==
    LET t == Strip(san.text)
        r == san.result
    IN  (san.pc = "returned" /\ Len(t) > san.max_chars) =>
            /\ Len(r) = san.max_chars
            /\ EndsWithMarker(r)
            /\ BeforeMarker(r) = Prefix(t, Len(BeforeMarker(r)))

\* C15 amended: if the limit is longer than the marker, the result ends with
\* the marker, what precedes it is the first (limit - marker length)
\* characters of the trimmed text less their trailing whitespace, so the
\* result is at most as long as the limit and exactly as long when the last
\* kept character is not whitespace; if the limit is not longer than the
\* marker, the result is the first (limit) characters and has no marker.
C15_TruncWithinLimit ==
    LET t == Strip(san.text)
        r == san.result
        keep == san.max_chars - Len(TRUNC_SUFFIX)
        b == BeforeMarker(r)
    IN  (san.pc = "returned" /\ Len(t) > san.max_chars) =>
            IF keep > 0
            THEN /\ EndsWithMarker(r)
                 /\ Len(r) <= san.max_chars
                 /\ b = Prefix(t, Len(b))
                 /\ b = <<>> \/ b[Len(b)] \notin Whitespace
                 /\ \A j \in (Len(b) + 1)..keep : t[j] \in Whitespace
                 /\ t[keep] \notin Whitespace => Len(r) = san.max_chars
            ELSE r = Prefix(t, san.max_chars)

\* C15 witness: a 14-character text was cut to the limit 13: three
\* characters and the marker.
C15_Witness ==
    /\ san.pc = "returned"
    /\ san.max_chars = 13
    /\ Len(Strip(san.text)) = 14
    /\ san.result = <<"a", "a", "a">> \o TRUNC_SUFFIX

\* C14: every text put in a reply or push POST is non-empty and at most
\* LINE_MAX_CHARS characters long.
C14_SentTextWithinLimit ==
    \A m \in Threads : \A x \in out[m].texts :
        x.text # <<>> /\ Len(x.text) <= LINE_MAX_CHARS

\* C14 witness: the thought of 801 characters was the fallback answer, and
\* what was pushed is 800 characters long and ends with the marker; the
\* acknowledgment went out before it.
C14_Witness ==
    \E t \in Threads :
        /\ th[t].pc = "done"
        /\ th[t].parts = <<>>
        /\ th[t].last_good_thought = t_long
        /\ [via |-> "reply", text |-> ACK_TEXT] \in out[t].texts
        /\ \E x \in out[t].texts :
              x.via = "push" /\ Len(x.text) = LINE_MAX_CHARS /\ EndsWithMarker(x.text)

\* C16: in reply-once mode no push is ever called, the handler replies
\* nothing itself and the acknowledgment text is never sent; in
\* acknowledge-then-push mode the only reply is the handler's, with the
\* acknowledgment text, made exactly when the event has a reply token, and
\* the worker's one call is a push.
C16_ModeFixesChannel ==
    \A m \in Threads :
        IF cfg.mode = "reply_once"
        THEN /\ out[m].pushCalls = 0
             /\ out[m].replyCalls = out[m].bgCalls
             /\ \A x \in out[m].texts : x.via = "reply" /\ x.text # ACK_TEXT
        ELSE /\ out[m].pushCalls = out[m].bgCalls
             /\ out[m].replyCalls = (IF out[m].seen /\ out[m].reply_token # <<>>
                                     THEN 1 ELSE 0)
             /\ \A x \in out[m].texts : (x.via = "reply") = (x.text = ACK_TEXT)

\* C16 witness: in acknowledge-then-push mode a message was acknowledged by
\* reply and answered "Hi" by push.
C16_Witness ==
    /\ cfg.mode = "ack_push"
    /\ \E m \in Threads :
          /\ th[m].pc = "done"
          /\ out[m].texts = {[via |-> "reply", text |-> ACK_TEXT],
                             [via |-> "push", text |-> t_Hi]}

\* C19: a send makes at most one POST, failed or not; in
\* acknowledge-then-push mode, after a failed POST for a message the handler
\* is about to start its worker or has dispatched it, with a worker started
\* if there is a push target; and a verified request ends with the success
\* response and every qualifying event of its envelope dispatched.
C19_FailedSendDropped ==
    /\ \A m \in Threads :
          /\ out[m].replyPosts <= out[m].replyCalls
          /\ out[m].pushPosts <= out[m].pushCalls
          /\ out[m].failed <= out[m].replyPosts + out[m].pushPosts
          /\ (cfg.mode # "reply_once" /\ out[m].failed >= 1) =>
                \/ hook.pc = "spawn" /\ hook.cur = m
                \/ /\ out[m].dispatched
                   /\ out[m].push_to # <<>> => th[m].pc # "none"
    /\ (hook.pc = "idle" /\ hook.nreq >= 1 /\ ~BadSignature(hook.sig, hook.body)) =>
          /\ hook.resp = 200
          /\ \A m \in Threads :
                m <= CountQualifying(hook.body) => out[m].dispatched

\* C19 witness: the acknowledgment of the first message failed and so did
\* its push; the push was still made, the second message of the envelope
\* was dispatched and the handler returned 200.
C19_Witness ==
    /\ cfg.mode = "ack_push"
    /\ out[1].failed = 2
    /\ out[1].replyPosts = 1
    /\ out[1].pushPosts = 1
    /\ th[1].pc = "done"
    /\ out[2].dispatched
    /\ hook.pc = "idle"
    /\ hook.resp = 200

\* the last data line of the block is one json.loads raises on
Malformed(block) ==
    \E i \in 1..Len(block) :
        /\ block[i].tag = "data"
        /\ block[i].json = "bad"
        /\ \A j \in (i + 1)..Len(block) : block[j].tag # "data"

\* C18: when a blank line closes a malformed block, no record is emitted,
\* one bad_json entry is recorded, the aggregation goes on, and its state is
\* what it was before the block began: collected text, fallback thought,
\* token flag, and the event name later blocks fall back to.
C18_MalformedBlockSkipped ==
    [][ \A t \in Threads :
          (/\ th[t].pc = "stream"
           /\ Malformed(th[t].block)
           /\ th'[t].nlines = th[t].nlines + 1
           /\ th'[t].block = <<>>) =>
              /\ th'[t].pc = "stream"
              /\ SSE_RAW' = SSE_RAW
              /\ Len(SSE_TAIL') = Len(SSE_TAIL) + 1
              /\ SSE_TAIL'[Len(SSE_TAIL')].kind = "bad_json"
              /\ th'[t].parts = th[t].parts
              /\ th'[t].last_good_thought = th[t].last_good_thought
              /\ th'[t].got_any_answer = th[t].got_any_answer
              /\ th'[t].last_event_line = th[t].last_event_line ]_vars

\* the locals of a call of dify_call_agent_streaming and what it returned
Locals(a) ==
    [pc |-> a.pc, no_text_deadline |-> a.no_text_deadline,
     overall_deadline |-> a.overall_deadline, parts |-> a.parts,
     got_any_answer |-> a.got_any_answer,
     last_good_thought |-> a.last_good_thought,
     last_event_line |-> a.last_event_line, block |-> a.block,
     result |-> a.result]

C21_AckBeforeWorker ==
    \A m \in Threads :
        (/\ cfg.mode # "reply_once"
         /\ out[m].reply_token # <<>>
         /\ out[m].push_to # <<>>
         /\ (th[m].pc # "none" \/ out[m].pushCalls > 0)) =>
            /\ out[m].replyCalls = 1
            /\ cfg.access_token => out[m].replyPosts = 1

\* C21 witness: the background unit of an acknowledged message has just been
\* started and nothing has been pushed yet.
C21_Witness ==
    /\ cfg.mode = "ack_push"
    /\ \E m \in Threads :
          /\ out[m].reply_token # <<>>
          /\ out[m].push_to # <<>>
          /\ th[m].pc = "start"
          /\ out[m].replyPosts = 1
          /\ out[m].pushCalls = 0

\* C22: at every poll of an aggregation and at its end, the token flag is
\* set exactly when the fragment list is non-empty; every fragment is
\* non-empty, has no surrounding whitespace and is no noise; and the joined
\* text is non-empty exactly when the flag is set.
C22_FlagIffFragments ==
    \A t \in Threads :
        /\ th[t].got_any_answer = (th[t].parts # <<>>)
        /\ th[t].got_any_answer = (Join(th[t].parts) # <<>>)
        /\ \A i \in 1..Len(th[t].parts) :
              /\ th[t].parts[i] # <<>>
              /\ Strip(th[t].parts[i]) = th[t].parts[i]
              /\ ~_looks_bad_text(th[t].parts[i])

\* C22 witness: after a noise payload was passed over, the padded fragment
\* was accepted trimmed.
C22_Witness ==
    \E t \in Threads :
        /\ th[t].got_any_answer
        /\ th[t].parts = <<t_A>>
        /\ th[t].nlines = 3
        /\ Len(SSE_RAW) = 2
        /\ SSE_RAW[1].answer = s_workflow_started

\* C23: under any interleaving of get_cache and set_cache calls of concurrent
\* requests, get_cache never fails and never returns a value stored more
\* than TTL_SECONDS before its expiry test; a reader that found the entry
\* expired gets None.
C23_CacheReadersSafe ==
    \A w \in Workers :
        /\ req[w].last # "KeyError"
        /\ req[w].last = "data" => req[w].at - req[w].got.ts <= TTL_SECONDS
        /\ (req[w].expired /\ req[w].pc # "del") => req[w].last = "None"

====
